---- MODULE Spec2Model ----
(***************************************************************************)
(* A model of src/main.rs: the pipeline parser (parse_arguments), the      *)
(* pipeline executor (parse_command) and the read-execute loop (repl) of   *)
(* the shell.  Stage indices are 0-based as in the source; TLA+ sequences  *)
(* are 1-based, so stage i is cmds[i + 1].                                 *)
(***************************************************************************)
EXTENDS Integers, Sequences, FiniteSets, TLC

VARIABLES
    pc,            \* position of the single control thread
    eof,           \* repl: standard input has reached end-of-stream
    exit_code,     \* the code the process exited with, NoExit while it runs
    cwd,           \* the working directory of the process
    stdout_buf,    \* text print!ed and still held in the buffer of stdout
    shell_fds,     \* the pipe ends the shell holds open
    command,       \* repl: the line read, as its whitespace-separated tokens
    command_split, \* parse_arguments: the words of the line being executed
    cmds,          \* parse_command: the command names returned by the parser
    args,          \* parse_command: the argument lists returned by the parser
    redirection,   \* parse_command: None or <<mode, filename>>
    i,             \* parse_command: index of the stage loop
    prev_stdout,   \* parse_command: None or the pipe whose read end is kept
    processes,     \* parse_command: the spawned children, in spawn order
    waited,        \* stages whose child has been waited on, in wait order
    ran,           \* stages that ran (builtin executed or child spawned)
    out,           \* texts print!ed by builtin stages during this call
    diag,          \* diagnostics eprintln!ed during this call
    fileLen        \* length of the redirection target file, -1 when absent

vars == <<pc, eof, exit_code, cwd, stdout_buf, shell_fds, command,
          command_split, cmds, args, redirection, i, prev_stdout,
          processes, waited, ran, out, diag, fileLen>>

\* what parse_arguments returned for the line
parsed == <<command, command_split, cmds, args, redirection>>

-----------------------------------------------------------------------------
(* Bounds of the model *)

\* longest line, in words
MaxWords == 5

\* longest pre-existing content of a redirection target
MaxFileLen == 1

-----------------------------------------------------------------------------
(* The world the shell runs in *)

\* main.rs:7
BUILTINS == {"echo", "exit", "type", "pwd", "cd", "history"}

\* main.rs:114
redir_modes == {"1>", "2>", ">", ">>", "1>>", "2>>"}

\* The programs Command::spawn can launch: `ls` is on the search path; no
\* other word of the vocabularies names a program, and the directory `nodir`
\* does not exist.
Executables == {"ls"}

\* The home directory of the user, and the directories that exist.
Home == "/home/user"
Dirs == {"/", Home}

\* The texts that lines hold between single quotes.
QuotedTexts == {"|", "a|b"}

\* The tokens lines are made of.  A line is drawn from one vocabulary.
Vocabularies ==
    { {"|", ">", "ls", "echo", "nodir/x"},
      {"|", ">>", "1>>", "2>", "ls"},
      {"|", "1>", "2>>", "ls", "echo"},
      {"|", "'|'", "'a|b'", "echo"},
      {"|", "exit", "7", "echo"} }

\* The tokens of the longer lines.
LongVocabulary == {"|", ">", "ls"}

\* The tokens of the lines that change the working directory.
CdVocabulary == {"cd", "~", "nodir/x", ">", "ls", "exit"}

RECURSIVE SeqsUpTo(_, _)
SeqsUpTo(S, n) ==
    IF n = 0 THEN {<<>>}
    ELSE LET shorter == SeqsUpTo(S, n - 1)
         IN  shorter \cup {Append(s, x) : s \in {t \in shorter : Len(t) = n - 1}, x \in S}

Lines ==
    UNION {SeqsUpTo(V, MaxWords) : V \in Vocabularies}
        \cup SeqsUpTo(LongVocabulary, MaxWords + 1)

CdLines == SeqsUpTo(CdVocabulary, MaxWords)

None == <<>>

-----------------------------------------------------------------------------
(* parse_arguments, main.rs:84-139 *)

\* main.rs:96: shlex removes the quotes around a token; what was quoted is
\* not recorded in the word
Unquote(token) ==
    IF \E text \in QuotedTexts : token = "'" \o text \o "'"
    THEN CHOOSE text \in QuotedTexts : token = "'" \o text \o "'"
    ELSE token

\* main.rs:96: shlex::split(&command)
RECURSIVE shlex_split(_)
shlex_split(line) ==
    IF line = <<>> THEN <<>>
    ELSE <<Unquote(Head(line))>> \o shlex_split(Tail(line))

\* a parser that forgets the group after the last "|"
RECURSIVE SplitGroups_NoFinalPush(_, _, _)
SplitGroups_NoFinalPush(ws, command_parts, current_part) ==
    IF ws = <<>>
    THEN command_parts
    ELSE IF Head(ws) = "|"
         THEN SplitGroups_NoFinalPush(Tail(ws), Append(command_parts, current_part), <<>>)
         ELSE SplitGroups_NoFinalPush(Tail(ws), command_parts,
                                      Append(current_part, Head(ws)))

\* main.rs:102-112: the words are cut at every "|"; the group before a "|"
\* is pushed whatever it holds, the group after the last "|" only when it
\* is not empty.
RECURSIVE SplitGroups(_, _, _)
SplitGroups(ws, command_parts, current_part) ==
    IF ws = <<>>
    THEN IF current_part # <<>> THEN Append(command_parts, current_part)
                                ELSE command_parts
    ELSE IF Head(ws) = "|"
         THEN SplitGroups(Tail(ws), Append(command_parts, current_part), <<>>)
         ELSE SplitGroups(Tail(ws), command_parts, Append(current_part, Head(ws)))

\* main.rs:122-134: the words after the command name, up to the first
\* redirection operator; the operator takes the next word as its target.
RECURSIVE ScanArgs(_, _)
ScanArgs(part_iter, part_args) ==
    IF part_iter = <<>>
    THEN [part_args |-> part_args, found |-> FALSE, redirection |-> None]
    ELSE IF Head(part_iter) \in redir_modes
         THEN IF Len(part_iter) >= 2
              THEN [part_args |-> part_args, found |-> TRUE,
                    redirection |-> <<part_iter[1], part_iter[2]>>]
              ELSE [part_args |-> part_args, found |-> FALSE, redirection |-> None]
         ELSE ScanArgs(Tail(part_iter), Append(part_args, Head(part_iter)))

\* a parser that pushes an argument list only when it holds a word
RECURSIVE ParseParts_NoEmptyArgs(_, _, _, _)
ParseParts_NoEmptyArgs(command_parts, cmd, arg_lists, redir) ==
    IF command_parts = <<>>
    THEN [cmd |-> cmd, args |-> arg_lists, redirection |-> redir]
    ELSE LET part == Head(command_parts)
             scan == ScanArgs(IF part = <<>> THEN <<>> ELSE Tail(part), <<>>)
         IN  ParseParts_NoEmptyArgs(
                 Tail(command_parts),
                 IF part # <<>> THEN Append(cmd, Head(part)) ELSE cmd,
                 IF scan.part_args # <<>> THEN Append(arg_lists, scan.part_args)
                                          ELSE arg_lists,
                 IF scan.found THEN scan.redirection ELSE redir)

\* main.rs:116-136: one pass over the groups.  A command name is pushed only
\* for a group that has a first word; an argument list is pushed for every
\* group; `redirection` is assigned whenever a group holds a complete one.
RECURSIVE ParseParts(_, _, _, _)
ParseParts(command_parts, cmd, arg_lists, redir) ==
    IF command_parts = <<>>
    THEN [cmd |-> cmd, args |-> arg_lists, redirection |-> redir]
    ELSE LET part == Head(command_parts)
             scan == ScanArgs(IF part = <<>> THEN <<>> ELSE Tail(part), <<>>)
         IN  ParseParts(Tail(command_parts),
                        IF part # <<>> THEN Append(cmd, Head(part)) ELSE cmd,
                        Append(arg_lists, scan.part_args),
                        IF scan.found THEN scan.redirection ELSE redir)

\* main.rs:97
HasPipe(ws) == \E k \in 1..Len(ws) : ws[k] = "|"

\* main.rs:84-139
parse_arguments(ws) ==
    LET r == ParseParts(SplitGroups(ws, <<>>, <<>>), <<>>, <<>>, None)
    IN  [cmd |-> r.cmd, args |-> r.args, redirection |-> r.redirection,
         has_pipe |-> HasPipe(ws)]

-----------------------------------------------------------------------------
(* run_builtin, main.rs:41-82 *)

\* main.rs:44: args.join(" ")
RECURSIVE Join(_)
Join(ws) ==
    IF ws = <<>> THEN ""
    ELSE IF Len(ws) = 1 THEN ws[1]
    ELSE ws[1] \o " " \o Join(Tail(ws))

\* main.rs:62: shellexpand::tilde
tilde(dir) == IF dir = "~" THEN Home ELSE dir

\* main.rs:63: env::set_current_dir succeeds for a directory that exists
CanChdir(path) == path \in Dirs

\* a builtin whose text lacks the final newline
run_builtin_NoNewline(cmd, cmd_args, dir) ==
    IF cmd = "echo" THEN <<<<Join(cmd_args)>>>> ELSE None

\* main.rs:41-82: the text the builtin returns, None when it returns none.
\* A text is the sequence of its pieces, a newline being a piece of its own.
\* `exit` does not return (see ExitCode).
run_builtin(cmd, cmd_args, dir) ==
    CASE cmd = "echo" -> <<<<Join(cmd_args), "\n">>>>
      [] cmd = "pwd"  -> <<<<dir, "\n">>>>
      [] cmd = "type" ->
            IF cmd_args = <<>> THEN <<<<"type: missing operand", "\n">>>>
            ELSE IF cmd_args[1] \in BUILTINS
                 THEN <<<<cmd_args[1], " is a shell builtin", "\n">>>>
            ELSE IF cmd_args[1] \in Executables
                 THEN <<<<cmd_args[1], " is ", "/bin/" \o cmd_args[1], "\n">>>>
            ELSE <<<<cmd_args[1], ": not found", "\n">>>>
      [] cmd = "cd"   ->
            IF cmd_args # <<>> /\ ~CanChdir(tilde(cmd_args[1]))
            THEN <<<<"cd: ", cmd_args[1], ": No such file or directory", "\n">>>>
            ELSE None
      [] OTHER -> None

\* main.rs:60-72: the working directory once the builtin has run
CwdAfter(cmd, cmd_args, dir) ==
    IF cmd = "cd" /\ cmd_args # <<>> /\ CanChdir(tilde(cmd_args[1]))
    THEN tilde(cmd_args[1])
    ELSE dir

\* main.rs:48: s.parse().ok(): of the tokens of the vocabularies only "7"
\* is a number
ParseCode(s) == IF s = "7" THEN <<7>> ELSE None

\* an exit that ignores its argument
ExitCode_Zero(cmd_args) == 0

\* main.rs:48: args.get(0).and_then(|s| s.parse().ok()).unwrap_or(0)
ExitCode(cmd_args) ==
    IF cmd_args # <<>> /\ ParseCode(cmd_args[1]) # None
    THEN ParseCode(cmd_args[1])[1]
    ELSE 0

-----------------------------------------------------------------------------
(* print! and stdout, main.rs:179, 210, 218-219 *)

\* position of the last newline of a text, 0 when it has none
LastNewline(text) ==
    LET at == {k \in 1..Len(text) : text[k] = "\n"}
    IN  IF at = {} THEN 0 ELSE CHOOSE k \in at : \A j \in at : j <= k

\* main.rs:179: stdout is line-buffered: print! writes through everything up
\* to the last newline and keeps the rest in the buffer
Buffered(buf, text) ==
    LET all == buf \o text
    IN  SubSeq(all, LastNewline(all) + 1, Len(all))

-----------------------------------------------------------------------------
(* parse_command, main.rs:141-211 *)

Inherit      == [kind |-> "inherit", pipe |-> -1, append |-> FALSE]
PipeRead(p)  == [kind |-> "pipe_read", pipe |-> p, append |-> FALSE]
PipeWrite(p) == [kind |-> "pipe_write", pipe |-> p, append |-> FALSE]
File(a)      == [kind |-> "file", pipe |-> -1, append |-> a]

NoPipe == -1

NoExit == -1

\* main.rs:151-154: the read end kept from the previous spawn, else the
\* shell's stdin
StdinOf(prev) == IF prev = NoPipe THEN Inherit ELSE PipeRead(prev)

\* an executor that reads prev_stdout without taking it
AfterTake_Keep(prev) == prev

\* main.rs:151-152: take() leaves None behind
AfterTake(prev) == NoPipe

\* an executor that pipes the last stage too
IsPiped_OffByOne(idx, n) == idx < n

\* main.rs:155
IsPiped(idx, n) == idx < n - 1

\* main.rs:155-157: the stage opens the redirection target
NeedsFile(idx, n, redir) == ~IsPiped(idx, n) /\ redir # None

\* main.rs:158-159
IsAppend(mode) == mode = ">>"

\* main.rs:159-164: the length of the target once opened: append(true)
\* keeps the content, truncate(true) empties it, create(true) makes an
\* absent file
OpenedLen(mode, len) ==
    IF IsAppend(mode) THEN (IF len = -1 THEN 0 ELSE len) ELSE 0

\* main.rs:166-172: open fails for a path in a directory that does not exist
CanOpen(filename) == filename # "nodir/x"

\* main.rs:155-175
StdoutOf(idx, n, redir) ==
    IF IsPiped(idx, n) THEN PipeWrite(idx)
    ELSE IF redir # None THEN File(IsAppend(redir[1]))
    ELSE Inherit

\* main.rs:188
StderrOf(idx, n, redir) == Inherit

\* main.rs:184-199: spawn succeeds for a program that exists
CanSpawn(cmd) == cmd \in Executables

\* main.rs:192: child.stdout.take() is the read end of a piped stdout
ChildStdout(idx, n) == IF IsPiped(idx, n) THEN idx ELSE NoPipe

\* an executor that keeps its copy of the write end after the spawn
KeptAfterSpawn_WriteEnd(idx, n) ==
    IF IsPiped(idx, n) THEN {PipeRead(idx), PipeWrite(idx)} ELSE {}

\* main.rs:184-193: the pipe ends of the new child's stdout the shell holds
\* once spawn has returned: spawn makes the pipe and closes the shell's copy
\* of the write end; the read end is child.stdout
KeptAfterSpawn(idx, n) == IF IsPiped(idx, n) THEN {PipeRead(idx)} ELSE {}

\* main.rs:151-154, 170, 181, 197, 199: the stage's stdin is owned by the
\* iteration (by the Command it was given to); dropping it closes the
\* shell's descriptor
Dropped(fds, stdin) == fds \ {stdin}

\* main.rs:147, 181: the loop goes on to the next stage, or ends
NextPc(idx, n) == IF idx + 1 < n THEN "stage" ELSE "wait"

\* an executor that goes on to the next stage after a failed spawn
SpawnErrPc_Continue(idx, n) == NextPc(idx, n)

\* main.rs:195-198: the spawn error returns from parse_command
SpawnErrPc(idx, n) == "returned"

\* main.rs:168-171: the open error returns from parse_command
OpenErrPc(idx, n) == "returned"

\* an executor that gives up at the first wait error
WaitPc_Fatal(ok) == IF ok THEN "wait" ELSE "returned"

\* main.rs:203-207: the wait loop goes on after a wait error
WaitPc(ok) == "wait"

Init ==
    /\ pc = "prompt"
    /\ eof = FALSE
    /\ exit_code = NoExit
    /\ cwd = "/"
    /\ stdout_buf = <<>>
    /\ shell_fds = {}
    /\ command = <<>>
    /\ command_split = <<>>
    /\ cmds = <<>>
    /\ args = <<>>
    /\ redirection = None
    /\ i = 0
    /\ prev_stdout = NoPipe
    /\ processes = <<>>
    /\ waited = <<>>
    /\ ran = <<>>
    /\ out = <<>>
    /\ diag = <<>>
    /\ fileLen = -1

\* main.rs:142-145: parse_command starts on the line
Enter(line) ==
    LET p == parse_arguments(shlex_split(line))
    IN  /\ command' = line
        /\ command_split' = shlex_split(line)
        /\ cmds' = p.cmd
        /\ args' = p.args
        /\ redirection' = p.redirection
        /\ pc' = IF Len(p.cmd) > 0 THEN "stage" ELSE "wait"
        /\ \E len \in -1..MaxFileLen :
             /\ (p.redirection = None => len = -1)
             /\ (p.redirection # None /\ ~CanOpen(p.redirection[2]) => len = -1)
             /\ fileLen' = len
        /\ i' = 0
        /\ prev_stdout' = NoPipe
        /\ processes' = <<>>
        /\ UNCHANGED <<exit_code, cwd, stdout_buf, shell_fds, waited, ran, out, diag>>

\* main.rs:222-225, 142-145: a line is read and parsed; the stage loop
\* starts.  The target file of the line's redirection is in any state.
ReadLine ==
    /\ pc = "prompt"
    /\ ~eof
    /\ eof' = eof
    /\ \E line \in Lines : Enter(line)

\* main.rs:222-225: the same, for a line that may change the directory
ReadLineCd ==
    /\ pc = "prompt"
    /\ ~eof
    /\ eof' = eof
    /\ \E line \in CdLines : Enter(line)

\* main.rs:222-225: at end-of-stream read_line returns Ok(0) and leaves the
\* line empty; it is executed like any line
ReadEof ==
    /\ pc = "prompt"
    /\ eof' = TRUE
    /\ Enter(<<>>)

\* main.rs:166-172: the redirection target cannot be opened
StageOpenFail ==
    /\ pc = "stage"
    /\ NeedsFile(i, Len(cmds), redirection)
    /\ ~CanOpen(redirection[2])
    /\ prev_stdout' = AfterTake(prev_stdout)
    /\ shell_fds' = Dropped(shell_fds, StdinOf(prev_stdout))
    /\ diag' = Append(diag, [kind |-> "open_failed", stage |-> i])
    /\ pc' = OpenErrPc(i, Len(cmds))
    /\ i' = IF pc' = "returned" THEN i ELSE i + 1
    /\ UNCHANGED <<parsed, eof, exit_code, cwd, stdout_buf, processes, waited,
                   ran, out, fileLen>>

\* main.rs:148-182: a builtin stage other than exit
StageBuiltin ==
    /\ pc = "stage"
    /\ NeedsFile(i, Len(cmds), redirection) => CanOpen(redirection[2])
    /\ cmds[i + 1] \in BUILTINS
    /\ cmds[i + 1] # "exit"
    /\ prev_stdout' = AfterTake(prev_stdout)
    /\ shell_fds' = Dropped(shell_fds, StdinOf(prev_stdout))
    /\ fileLen' = IF NeedsFile(i, Len(cmds), redirection)
                  THEN OpenedLen(redirection[1], fileLen) ELSE fileLen
    /\ cwd' = CwdAfter(cmds[i + 1], args[i + 1], cwd)
    /\ LET output == run_builtin(cmds[i + 1], args[i + 1], cwd)
       IN  /\ out' = IF output # None
                     THEN Append(out, [stage |-> i, text |-> output[1]])
                     ELSE out
           /\ stdout_buf' = IF output # None THEN Buffered(stdout_buf, output[1])
                            ELSE stdout_buf
    /\ ran' = Append(ran, i)
    /\ pc' = NextPc(i, Len(cmds))
    /\ i' = i + 1
    /\ UNCHANGED <<parsed, eof, exit_code, processes, waited, diag>>

\* main.rs:148-178, 48: the exit builtin ends the process, and with it every
\* descriptor it holds
StageExit ==
    /\ pc = "stage"
    /\ NeedsFile(i, Len(cmds), redirection) => CanOpen(redirection[2])
    /\ cmds[i + 1] = "exit"
    /\ prev_stdout' = AfterTake(prev_stdout)
    /\ fileLen' = IF NeedsFile(i, Len(cmds), redirection)
                  THEN OpenedLen(redirection[1], fileLen) ELSE fileLen
    /\ exit_code' = ExitCode(args[i + 1])
    /\ shell_fds' = {}
    /\ ran' = Append(ran, i)
    /\ pc' = "exited"
    /\ UNCHANGED <<parsed, eof, cwd, stdout_buf, i, processes, waited, out, diag>>

\* main.rs:148-194: an external stage is spawned
StageSpawn ==
    /\ pc = "stage"
    /\ NeedsFile(i, Len(cmds), redirection) => CanOpen(redirection[2])
    /\ cmds[i + 1] \notin BUILTINS
    /\ CanSpawn(cmds[i + 1])
    /\ fileLen' = IF NeedsFile(i, Len(cmds), redirection)
                  THEN OpenedLen(redirection[1], fileLen) ELSE fileLen
    /\ processes' = Append(processes,
                           [stage  |-> i,
                            stdin  |-> StdinOf(prev_stdout),
                            stdout |-> StdoutOf(i, Len(cmds), redirection),
                            stderr |-> StderrOf(i, Len(cmds), redirection)])
    /\ prev_stdout' = ChildStdout(i, Len(cmds))
    /\ shell_fds' = Dropped(shell_fds, StdinOf(prev_stdout))
                        \cup KeptAfterSpawn(i, Len(cmds))
    /\ ran' = Append(ran, i)
    /\ pc' = NextPc(i, Len(cmds))
    /\ i' = i + 1
    /\ UNCHANGED <<parsed, eof, exit_code, cwd, stdout_buf, waited, out, diag>>

\* main.rs:148-176, 184-198: an external stage cannot be spawned
StageNotFound ==
    /\ pc = "stage"
    /\ NeedsFile(i, Len(cmds), redirection) => CanOpen(redirection[2])
    /\ cmds[i + 1] \notin BUILTINS
    /\ ~CanSpawn(cmds[i + 1])
    /\ fileLen' = IF NeedsFile(i, Len(cmds), redirection)
                  THEN OpenedLen(redirection[1], fileLen) ELSE fileLen
    /\ prev_stdout' = AfterTake(prev_stdout)
    /\ shell_fds' = Dropped(shell_fds, StdinOf(prev_stdout))
    /\ diag' = Append(diag, [kind |-> "not_found", stage |-> i])
    /\ pc' = SpawnErrPc(i, Len(cmds))
    /\ i' = IF pc' = "returned" THEN i ELSE i + 1
    /\ UNCHANGED <<parsed, eof, exit_code, cwd, stdout_buf, processes, waited,
                   ran, out>>

\* main.rs:203-207: the next child, in spawn order, is waited on; a wait
\* error is printed and the loop goes on
WaitChild ==
    /\ pc = "wait"
    /\ Len(waited) < Len(processes)
    /\ LET child == processes[Len(waited) + 1]
       IN  /\ waited' = Append(waited, child.stage)
           /\ \E ok \in BOOLEAN :
                /\ diag' = IF ok THEN diag
                           ELSE Append(diag, [kind |-> "wait_failed",
                                              stage |-> child.stage])
                /\ pc' = WaitPc(ok)
    /\ UNCHANGED <<parsed, eof, exit_code, cwd, stdout_buf, shell_fds, i,
                   prev_stdout, processes, ran, out, fileLen>>

\* main.rs:208-211: every child is waited on; stdout is flushed and
\* parse_command returns
Finish ==
    /\ pc = "wait"
    /\ Len(waited) = Len(processes)
    /\ stdout_buf' = <<>>
    /\ pc' = "returned"
    /\ UNCHANGED <<parsed, eof, exit_code, cwd, shell_fds, i, prev_stdout,
                   processes, waited, ran, out, diag, fileLen>>

\* main.rs:217-219: back in repl the locals of parse_command are gone; the
\* next prompt is printed and stdout is flushed
LoopBack ==
    /\ pc = "returned"
    /\ pc' = "prompt"
    /\ stdout_buf' = <<>>
    /\ shell_fds' = {}
    /\ command' = <<>>
    /\ command_split' = <<>>
    /\ cmds' = <<>>
    /\ args' = <<>>
    /\ redirection' = None
    /\ i' = 0
    /\ prev_stdout' = NoPipe
    /\ processes' = <<>>
    /\ waited' = <<>>
    /\ ran' = <<>>
    /\ out' = <<>>
    /\ diag' = <<>>
    /\ fileLen' = -1
    /\ UNCHANGED <<eof, exit_code, cwd>>

Stage == StageOpenFail \/ StageBuiltin \/ StageExit \/ StageSpawn \/ StageNotFound

Next ==
    \/ ReadLine
    \/ ReadEof
    \/ StageOpenFail
    \/ StageBuiltin
    \/ StageExit
    \/ StageSpawn
    \/ StageNotFound
    \/ WaitChild
    \/ Finish
    \/ LoopBack

Spec == Init /\ [][Next]_vars

\* The control thread runs the stage loop without blocking: spawn, open and
\* builtins return.
FairSpec == Spec /\ WF_vars(Stage)

\* The shell on the lines that change the working directory.
NextCd ==
    \/ ReadLineCd
    \/ ReadEof
    \/ StageOpenFail
    \/ StageBuiltin
    \/ StageExit
    \/ StageSpawn
    \/ StageNotFound
    \/ WaitChild
    \/ Finish
    \/ LoopBack

CdSpec == Init /\ [][NextCd]_vars

-----------------------------------------------------------------------------
(* What the specification says a line parses to, stated on the words       *)

Min(S) == CHOOSE x \in S : \A y \in S : x <= y

Range(s) == {s[k] : k \in 1..Len(s)}

PipePositions(ws) == {k \in 1..Len(ws) : ws[k] = "|"}

\* the pipe-delimited group that starts after position p (0, or a "|")
GroupAfter(ws, p) ==
    LET stop == Min({q \in PipePositions(ws) \cup {Len(ws) + 1} : q > p})
    IN  SubSeq(ws, p + 1, stop - 1)

RECURSIVE GroupsFrom(_, _)
GroupsFrom(ws, starts) ==
    IF starts = {} THEN <<>>
    ELSE LET p == Min(starts)
         IN  <<GroupAfter(ws, p)>> \o GroupsFrom(ws, starts \ {p})

\* the non-empty pipe-delimited groups, left to right
NonEmptyGroups(ws) ==
    GroupsFrom(ws, {p \in {0} \cup PipePositions(ws) : GroupAfter(ws, p) # <<>>})

\* position, among the words after the command, of the first redirection
\* operator of a group; one past the end when there is none
FirstOperator(group) ==
    LET rest == Tail(group)
    IN  Min({k \in 1..Len(rest) : rest[k] \in redir_modes} \cup {Len(rest) + 1})

ArgumentsOf(group) == SubSeq(Tail(group), 1, FirstOperator(group) - 1)

\* the complete redirection of a group, None when it has none
RedirectionOf(group) ==
    LET rest == Tail(group)
        k == FirstOperator(group)
    IN  IF k < Len(rest) THEN <<rest[k], rest[k + 1]>> ELSE None

Parsed == pc # "prompt"

Reported(kind) == \E k \in 1..Len(diag) : diag[k].kind = kind

Spawned(stage) == \E k \in 1..Len(processes) : processes[k].stage = stage

LastStage == Len(cmds) - 1

-----------------------------------------------------------------------------
(* Claims *)

\* C1: when a stage cannot be spawned, every child spawned earlier in the
\* call has been waited on by the time parse_command returns.
C1_SpawnAbortWaitsSpawned ==
    (pc = "returned" /\ Reported("not_found"))
        => \A k \in 1..Len(processes) : processes[k].stage \in Range(waited)

\* C2: when the redirection target cannot be opened, no child has been
\* spawned and no stage has run at the moment the failure is reported.
C2_OpenFailureBeforeAnyStage ==
    Reported("open_failed") => (processes = <<>> /\ ran = <<>>)

\* C3: the pipeline's redirection is the one of the last group only: when
\* the last group holds no complete redirection the pipeline has none and
\* no child's stdout is a file.
C3_RedirectionOfLastGroupOnly ==
    Parsed =>
        LET groups == NonEmptyGroups(command_split)
        IN  (groups = <<>> \/ RedirectionOf(groups[Len(groups)]) = None)
                => /\ redirection = None
                   /\ \A k \in 1..Len(processes) : processes[k].stdout.kind # "file"

\* C4: the stdin of a spawned stage is the read end of the pipe written by
\* the stage before it exactly when that stage was spawned; otherwise it
\* is the shell's stdin.
C4_StdinWiring ==
    \A k \in 1..Len(processes) :
        LET c == processes[k]
        IN  IF c.stage > 0 /\ Spawned(c.stage - 1)
            THEN /\ c.stdin = PipeRead(c.stage - 1)
                 /\ \A j \in 1..Len(processes) :
                        processes[j].stage = c.stage - 1
                            => processes[j].stdout = PipeWrite(c.stage - 1)
            ELSE c.stdin = Inherit

\* C4 witness: three external stages, each fed by the one before it
C4_Witness ==
    /\ Len(processes) = 3
    /\ processes[2].stdin = PipeRead(0)
    /\ processes[3].stdin = PipeRead(1)

\* C5: a spawned stage that is not the last writes to a pipe of its own;
\* only the last stage can write to the redirection file; without a
\* redirection the last stage writes to the shell's stdout.
C5_StdoutSink ==
    \A k \in 1..Len(processes) :
        LET c == processes[k]
        IN  /\ c.stage # LastStage =>
                 /\ c.stdout.kind = "pipe_write"
                 /\ \A j \in 1..Len(processes) :
                        j # k => processes[j].stdout # c.stdout
            /\ c.stdout.kind = "file" => (c.stage = LastStage /\ redirection # None)
            /\ (c.stage = LastStage /\ redirection = None) => c.stdout = Inherit

\* C5 witness: a piped stage followed by a last stage bound to the file
C5_Witness ==
    /\ Len(processes) = 2
    /\ redirection = RedirectionOf(NonEmptyGroups(command_split)[2])
    /\ processes[1].stdout.kind = "pipe_write"
    /\ processes[2].stdout.kind = "file"

\* C6: opening the target keeps its content under an append operator and
\* empties it under an overwrite operator; an absent file is created.
C6_OpenModeFollowsOperator ==
    [][(/\ pc = "stage"
        /\ NeedsFile(i, Len(cmds), redirection)
        /\ CanOpen(redirection[2]))
          => fileLen' = IF redirection[1] \in {">>", "1>>", "2>>"}
                        THEN (IF fileLen = -1 THEN 0 ELSE fileLen)
                        ELSE 0]_vars

\* C7: under a stderr operator the file is the last stage's stderr and its
\* stdout stays the shell's; under a stdout operator the file is its
\* stdout and its stderr stays the shell's.
C7_StreamFollowsOperator ==
    \A k \in 1..Len(processes) :
        LET c == processes[k]
        IN  (c.stage = LastStage /\ redirection # None) =>
                IF redirection[1] \in {"2>", "2>>"}
                THEN c.stderr.kind = "file" /\ c.stdout = Inherit
                ELSE c.stdout.kind = "file" /\ c.stderr = Inherit

\* a two-stage pipeline whose stage 0 names neither a builtin nor a program
UnresolvableFirstOfTwo ==
    /\ Len(cmds) = 2
    /\ cmds[1] \notin BUILTINS \cup Executables

\* C8: in a two-stage pipeline whose stage 0 is unresolvable, stage 1 never
\* runs and parse_command returns.
C8_UnresolvableFirstStage ==
    /\ [](UnresolvableFirstOfTwo => 1 \notin Range(ran))
    /\ ((UnresolvableFirstOfTwo /\ pc = "stage") ~> (pc = "returned"))

\* C8 witness: the call has returned after reporting stage 0
C8_Witness ==
    /\ UnresolvableFirstOfTwo
    /\ pc = "returned"
    /\ diag = <<[kind |-> "not_found", stage |-> 0]>>
    /\ ran = <<>>

\* C9: the stages are the non-empty groups, in order: stage k's command is
\* the first word of the k-th non-empty group and its arguments are the
\* words after it up to the group's first redirection operator.
C9_StagesAreNonEmptyGroups ==
    Parsed =>
        LET groups == NonEmptyGroups(command_split)
        IN  /\ Len(cmds) = Len(groups)
            /\ \A k \in 1..Len(groups) :
                   /\ cmds[k] = groups[k][1]
                   /\ args[k] = ArgumentsOf(groups[k])

NoPipeNoOperator(ws) == \A k \in 1..Len(ws) : ws[k] \notin redir_modes \cup {"|"}

\* C10 as stated: a line with no "|" and no redirection operator parses to
\* exactly one stage and no redirection.
C10_Original ==
    (Parsed /\ NoPipeNoOperator(command_split))
        => (Len(cmds) = 1 /\ redirection = None)

\* C10 amended: a line of at least one word with no "|" and no redirection
\* operator parses to exactly one stage, whose command is the first word
\* and whose arguments are the others, and no redirection.
C10_OneStageNoRedirection ==
    (Parsed /\ Len(command_split) >= 1 /\ NoPipeNoOperator(command_split))
        => /\ Len(cmds) = 1
           /\ redirection = None

\* C10 witness: a line of several plain words has been parsed
C10_Witness ==
    /\ Parsed
    /\ Len(command_split) >= 2
    /\ NoPipeNoOperator(command_split)
    /\ Len(cmds) = 1

\* C11: a "|" between quotes never splits the pipeline: the stages are the
\* non-empty groups between the bare "|" tokens of the line.
C11_QuotedPipeDoesNotSplit ==
    Parsed => Len(cmds) = Len(NonEmptyGroups(command))

\* the stage about to run is the builtin `name`, and nothing keeps it from
\* running
BuiltinRuns(name) ==
    /\ pc = "stage"
    /\ cmds[i + 1] = name
    /\ NeedsFile(i, Len(cmds), redirection) => CanOpen(redirection[2])

\* C12: cd without an argument changes the working directory to the home
\* directory, and so does cd with the argument "~".
C12_CdGoesHome ==
    [][(BuiltinRuns("cd") /\ (args[i + 1] = <<>> \/ args[i + 1][1] = "~"))
          => cwd' = Home]_vars

\* C13: exit ends the process at once with the code its first argument
\* names, 0 when it has none or it is no number; no stage and no line runs
\* after it.
C13_ExitTerminates ==
    [][/\ pc # "exited"
       /\ BuiltinRuns("exit") =>
            /\ pc' = "exited"
            /\ exit_code' = IF args[i + 1] # <<>> /\ args[i + 1][1] = "7"
                            THEN 7 ELSE 0
            /\ processes' = processes
            /\ out' = out]_vars

\* C13 witness: the process has exited with code 7, a stage of the line not
\* run and standard input not at its end
C13_Witness ==
    /\ pc = "exited"
    /\ exit_code = 7
    /\ i + 1 < Len(cmds)
    /\ ~eof

\* C14: once standard input is at end-of-stream the shell prints no further
\* prompt.
C14_NoPromptAfterEof == eof => pc # "prompt"

\* C15: a builtin stage spawns no child, leaves the pipe ends the shell
\* holds as they are, and opens, creates or truncates no file.
C15_BuiltinLeavesPlumbingAlone ==
    [][(pc = "stage" /\ cmds[i + 1] \in BUILTINS)
          => /\ processes' = processes
             /\ shell_fds' = shell_fds
             /\ fileLen' = fileLen
             /\ diag' = diag]_vars

\* C16: when parse_command has returned, on any path, nothing print!ed is
\* left in the buffer of stdout.
C16_FlushedAtReturn == pc = "returned" => stdout_buf = <<>>

\* C16 witness: a return on the command-not-found path after a builtin
\* has printed
C16_Witness ==
    /\ pc = "returned"
    /\ Reported("not_found")
    /\ out # <<>>

\* C17: no child is waited on while stages are still launched; children
\* are waited on once each, in spawn order; after a completed stage loop
\* all of them are, a wait error or not.
C17_WaitsInSpawnOrder ==
    /\ pc = "stage" => waited = <<>>
    /\ Len(waited) <= Len(processes)
    /\ \A k \in 1..Len(waited) : waited[k] = processes[k].stage
    /\ (pc = "returned" /\ ~Reported("not_found") /\ ~Reported("open_failed"))
          => Len(waited) = Len(processes)

\* C17 witness: two children, the wait on the first failed, both waited on
C17_Witness ==
    /\ pc = "returned"
    /\ Len(processes) = 2
    /\ Len(waited) = 2
    /\ diag # <<>>
    /\ diag[1] = [kind |-> "wait_failed", stage |-> processes[1].stage]

\* the first redirection operator of the last group is the last word of
\* the line
TrailingOperator ==
    /\ Parsed
    /\ NonEmptyGroups(command_split) # <<>>
    /\ command_split[Len(command_split)] \in redir_modes
    /\ LET groups == NonEmptyGroups(command_split)
           rest == Tail(groups[Len(groups)])
       IN  rest # <<>> /\ FirstOperator(groups[Len(groups)]) = Len(rest)

\* C18: a redirection operator that ends the line gives no redirection and
\* no error: the words before it are the stage's arguments and the last
\* stage writes to the shell's stdout.
C18_TrailingOperatorDropped ==
    TrailingOperator =>
        LET groups == NonEmptyGroups(command_split)
        IN  /\ redirection = None
            /\ args[Len(cmds)] = ArgumentsOf(groups[Len(groups)])
            /\ ~Reported("open_failed")
            /\ \A k \in 1..Len(processes) :
                   processes[k].stage = LastStage => processes[k].stdout = Inherit

\* C19: the shell holds at most the read end of the stdout of the child it
\* spawned last, never a write end, and no pipe end at all once the stage
\* loop is over or parse_command has returned.
C19_PipeEndOwnership ==
    /\ Cardinality({f \in shell_fds : f.kind = "pipe_read"}) <= 1
    /\ \A f \in shell_fds : f.kind # "pipe_write"
    /\ shell_fds # {} =>
          /\ pc = "stage"
          /\ processes # <<>>
          /\ shell_fds = {PipeRead(processes[Len(processes)].stage)}
    /\ pc \in {"wait", "returned", "prompt"} => shell_fds = {}

\* C19 witness: a return on the command-not-found path after a spawn
C19_Witness ==
    /\ pc = "returned"
    /\ Reported("not_found")
    /\ processes # <<>>
    /\ shell_fds = {}

\* C20: there are at least as many argument lists as commands, every stage
\* the loop visits has a command and an argument list, and a line of no
\* words runs nothing, opens nothing and reports nothing.
C20_LookupsDefined ==
    /\ Len(args) >= Len(cmds)
    /\ pc = "stage" => (i + 1 <= Len(cmds) /\ i + 1 <= Len(args))
    /\ (Parsed /\ command_split = <<>>) =>
          /\ cmds = <<>>
          /\ ran = <<>>
          /\ processes = <<>>
          /\ diag = <<>>
          /\ fileLen = -1

\* C20 witness: a stage is visited on a line that has more argument lists
\* than commands
C20_Witness ==
    /\ pc = "stage"
    /\ Len(args) > Len(cmds)

====
